---------------------------- MODULE Spec2Model ----------------------------
(***************************************************************************)
(* A model of jdonszelmann/schematics: the BlockState text form            *)
(* (schematic.rs), the container codec (schematic.rs) and the ROM layout   *)
(* engine (rom.rs).                                                        *)
(*                                                                         *)
(* Strings are sequences of one-character strings, so that formatting and  *)
(* parsing work on characters as the Rust code does.  A HashMap is a       *)
(* function; its iteration order is arbitrary (std's RandomState), so      *)
(* every place where the code depends on that order is a nondeterministic  *)
(* choice here.                                                            *)
(***************************************************************************)
EXTENDS Integers, Sequences, FiniteSets, TLC

VARIABLES
    pc,             \* position of the running operation
    bs,             \* BlockState under test (fmt / from_str)
    text,           \* output of Display::fmt
    parsed,         \* output of FromStr::from_str
    schematic,      \* the Schematic value (block_data, block_entities, original_*)
    program,        \* Vec<u16> given to program_rom
    lines,          \* order_lines: the map still to be placed
    ordered_lines,  \* order_lines: the slots filled so far
    row,            \* order_lines: loop variable i
    col,            \* order_lines: loop variable j
    last_z,         \* order_lines: last_z
    input,          \* the Schematic a run started from
    first,          \* result of the first program_rom run (before a re-run)
    run,            \* 1 in the first program_rom run, 2 in a re-run on its result
    format,         \* SchemFormat written by to_writer / read by from_reader
    decoded,        \* result of from_reader
    cur_id,         \* varint encoder: the i32 being written
    stream,         \* varint: the byte stream (Vec<i8>)
    vres,           \* varint decoder: result of one varint read
    steps           \* main: the steps of the pipeline started so far, in order

vars == <<pc, bs, text, parsed, schematic, program, lines, ordered_lines, row,
          col, last_z, input, first, run, format, decoded, cur_id, stream, vres,
          steps>>

textVars == <<bs, text, parsed>>
romVars == <<schematic, program, lines, ordered_lines, row, col, last_z, input, first, run>>
codecVars == <<format, decoded>>
varintVars == <<cur_id, stream, vres>>
mainVars == <<steps>>

None == "none"

(***************************************************************************)
(* Sequence and string helpers (std::str)                                  *)
(***************************************************************************)
RECURSIVE Find(_, _, _)
\* index of the first occurrence of character c in s at or after i, 0 if none
Find(s, c, i) ==
    IF i > Len(s) THEN 0
    ELSE IF s[i] = c THEN i
    ELSE Find(s, c, i + 1)

\* str::split_once: None, or the parts before and after the first c
split_once(s, c) ==
    LET k == Find(s, c, 1) IN
    IF k = 0 THEN [found |-> FALSE, l |-> s, r |-> <<>>]
    ELSE [found |-> TRUE, l |-> SubSeq(s, 1, k - 1), r |-> SubSeq(s, k + 1, Len(s))]

\* trim_end_matches that removes nothing
trim_end_matches_none(s, c) == s

RECURSIVE trim_end_matches(_, _)
\* str::trim_end_matches: removes every trailing c
trim_end_matches(s, c) ==
    IF Len(s) > 0 /\ s[Len(s)] = c
    THEN trim_end_matches(SubSeq(s, 1, Len(s) - 1), c)
    ELSE s

RECURSIVE split(_, _)
\* str::split: the pieces between occurrences of c (one empty piece for "")
split(s, c) ==
    LET p == split_once(s, c) IN
    IF p.found THEN <<p.l>> \o split(p.r, c) ELSE <<s>>

RECURSIVE Perms(_)
\* every sequence that lists the elements of S once: the orders in which a
\* HashMap with key set S may iterate
Perms(S) ==
    IF S = {} THEN {<<>>}
    ELSE UNION {{<<k>> \o t : t \in Perms(S \ {k})} : k \in S}

(***************************************************************************)
(* BlockState (schematic.rs 63-147)                                        *)
(***************************************************************************)
EmptyProps == [k \in {} |-> <<>>]

\* BlockState::with_props
with_props(name, props) == [id |-> name, props |-> props]

\* BlockState::new
new(name) == with_props(name, EmptyProps)

\* the identifiers the code names, shortened to one character each; none of
\* them holds a delimiter of the text form
AirId == <<"a">>
StoneId == <<"t">>
SoulTorchId == <<"s">>
RedstoneTorchId == <<"r">>

\* BlockState::air
air == new(AirId)

\* same_props_new_id that keeps the identifier
same_props_same_id(b, name) == b

\* same_props_new_id that drops the properties
new_id_no_props(b, name) == [id |-> name, props |-> EmptyProps]

\* BlockState::same_props_new_id
same_props_new_id(b, name) == [id |-> name, props |-> b.props]

RECURSIVE fmt_props(_, _, _)
\* the loop of Display::fmt over props.iter().enumerate()
fmt_props(props, order, idx) ==
    IF idx > Len(order) THEN <<>>
    ELSE order[idx] \o <<"=">> \o props[order[idx]]
         \o (IF idx < Len(order) THEN <<",">> ELSE <<>>)
         \o fmt_props(props, order, idx + 1)

\* Display::fmt with the map iterating in the given order
fmt(b, order) ==
    IF DOMAIN b.props = {} THEN b.id
    ELSE b.id \o <<"[">> \o fmt_props(b.props, order, 1) \o <<"]">>

RECURSIVE insert_props(_, _, _)
\* the loop of from_str: Err at the first entry without '=', else the map
\* after inserting every entry (a later entry replaces an equal key)
insert_props(entries, idx, props) ==
    IF idx > Len(entries) THEN [ok |-> TRUE, props |-> props]
    ELSE LET e == split_once(entries[idx], "=") IN
         IF ~ e.found THEN [ok |-> FALSE, props |-> props]
         ELSE insert_props(entries, idx + 1,
                  [k \in (DOMAIN props) \cup {e.l} |->
                      IF k = e.l THEN e.r ELSE props[k]])

\* FromStr::from_str
from_str(s) ==
    LET p == split_once(s, "[") IN
    IF ~ p.found THEN [ok |-> TRUE, val |-> [id |-> s, props |-> EmptyProps]]
    ELSE LET r == insert_props(split(trim_end_matches(p.r, "]"), ","), 1, EmptyProps) IN
         IF r.ok THEN [ok |-> TRUE, val |-> [id |-> p.l, props |-> r.props]]
         ELSE [ok |-> FALSE, val |-> "no equal in palette prop"]

(***************************************************************************)
(* Integer conversions and arithmetic of the Rust code                     *)
(***************************************************************************)
\* `as i8`: the low 8 bits, two's complement
as_i8(n) == ((n + 128) % 256) - 128

\* `as u8`
as_u8(n) == n % 256

\* `as i16`
as_i16(n) == ((n + 32768) % 65536) - 32768

\* a usize or u32 value of 2^31 or more: TLC's integers end at 2^31 - 1, and
\* the code only ever compares such a value with a length below 2^31
Huge == 0 - 1

\* `as usize` of an i16 or i32 (64 bit): a negative value wraps to 2^64 + n
as_usize(n) == IF n < 0 THEN Huge ELSE n

\* `((id as u32) >> 7) as i32` for an i32 id: (2^32 + id) >> 7 is
\* 2^25 + floor(id / 128) when id is negative
shr7_u32(n) == IF n < 0 THEN 33554432 + (n \div 128) ELSE n \div 128

Abs(n) == IF n < 0 THEN 0 - n ELSE n

\* i64 `/` (truncates toward zero); the caller rules out d = 0
rust_div(n, d) ==
    LET q == Abs(n) \div Abs(d) IN
    IF (n < 0) = (d < 0) THEN q ELSE 0 - q

\* i64 `%` (sign of the dividend)
rust_rem(n, d) == n - d * rust_div(n, d)

RECURSIVE BitOr(_, _)
\* `|` on non-negative integers
BitOr(a, b) ==
    IF a = 0 THEN b
    ELSE IF b = 0 THEN a
    ELSE (IF a % 2 = 1 \/ b % 2 = 1 THEN 1 ELSE 0) + 2 * BitOr(a \div 2, b \div 2)

RECURSIVE Pow2(_)
Pow2(n) == IF n = 0 THEN 1 ELSE 2 * Pow2(n - 1)

SetMin(S) == CHOOSE m \in S : \A n \in S : m <= n

SetMax(S) == CHOOSE m \in S : \A n \in S : n <= m

(***************************************************************************)
(* Varint (schematic.rs 204-208 and 336-351)                               *)
(***************************************************************************)
RECURSIVE write_varint_plain(_)
\* write_varint without the continuation bit on the leading bytes
write_varint_plain(n) ==
    IF n < 0 \/ n > 127
    THEN <<as_i8(n % 128)>> \o write_varint_plain(shr7_u32(n))
    ELSE <<as_i8(n)>>

RECURSIVE write_varint(_)
\* the bytes pushed for one i32 palette index:
\*   while (id & -128) != 0 { push((id & 127 | 128) as i8); id = ((id as u32) >> 7) as i32 }
\*   push(id as i8)
\* (id & -128) != 0 exactly when id is not in 0..127; id & 127 | 128 is
\* id mod 128 plus 128
write_varint(n) ==
    IF n < 0 \/ n > 127
    THEN <<as_i8((n % 128) + 128)>> \o write_varint(shr7_u32(n))
    ELSE <<as_i8(n)>>

\* value | (chunk << shift) on a usize, for a 7-bit chunk
shl_or(value, chunk, shift) ==
    IF value = Huge THEN Huge
    ELSE IF chunk = 0 THEN value
    ELSE IF shift >= 31 THEN Huge
    ELSE IF shift > 24 /\ chunk >= Pow2(31 - shift) THEN Huge
    ELSE BitOr(value, chunk * Pow2(shift))

RECURSIVE read_varint_loop(_, _, _, _)
\* the inner `loop` of decode_block_data; i is the 0-based index into
\* block_data.  Indexing block_data[i] with i >= len panics.
read_varint_loop(block_data, i, value, varint_length) ==
    IF i >= Len(block_data)
    THEN [kind |-> "panic", msg |-> "index out of bounds", value |-> value, i |-> i]
    ELSE LET byte == as_u8(block_data[i + 1])
             v == shl_or(value, byte % 128, varint_length * 7)
         IN  IF varint_length + 1 > 5
             THEN [kind |-> "err", msg |-> "varint length too big (data probably corrupted)",
                   value |-> v, i |-> i]
             ELSE IF byte \div 128 # 1
             THEN [kind |-> "ok", msg |-> "", value |-> v, i |-> i + 1]
             ELSE read_varint_loop(block_data, i + 1, v, varint_length + 1)

\* one varint read starting at index i (value = 0; varint_length = 0)
read_varint(block_data, i) == read_varint_loop(block_data, i, 0, 0)

(***************************************************************************)
(* Schematic: bounding box (schematic.rs 383-431)                          *)
(*                                                                         *)
(* A Schematic is a record of its eight fields.  A Vector3 is <<x, y, z>>, *)
(* a Vector2 line id is <<y, z>>.                                          *)
(***************************************************************************)
X(p) == p[1]
Y(p) == p[2]
Z(p) == p[3]

\* Schematic::min with unwrap_or(0)
min_x(s) == IF DOMAIN s.block_data = {} THEN 0 ELSE SetMin({X(p) : p \in DOMAIN s.block_data})
min_y(s) == IF DOMAIN s.block_data = {} THEN 0 ELSE SetMin({Y(p) : p \in DOMAIN s.block_data})
min_z(s) == IF DOMAIN s.block_data = {} THEN 0 ELSE SetMin({Z(p) : p \in DOMAIN s.block_data})

\* Schematic::max with .map(|i| i + 1).unwrap_or(0)
max_x(s) == IF DOMAIN s.block_data = {} THEN 0 ELSE SetMax({X(p) : p \in DOMAIN s.block_data}) + 1
max_y(s) == IF DOMAIN s.block_data = {} THEN 0 ELSE SetMax({Y(p) : p \in DOMAIN s.block_data}) + 1
max_z(s) == IF DOMAIN s.block_data = {} THEN 0 ELSE SetMax({Z(p) : p \in DOMAIN s.block_data}) + 1

\* len_x read from the declared width instead of the occupied positions
len_x_declared(s) == s.original_width

\* Schematic::len_x, len_y, len_z
len_x(s) == as_usize(max_x(s) - min_x(s))
len_y(s) == as_usize(max_y(s) - min_y(s))
len_z(s) == as_usize(max_z(s) - min_z(s))

height(s) == len_y(s)
width(s) == len_x(s)
length(s) == len_z(s)

\* Schematic::block_at: Option<Rc<BlockState>>
block_at(s, loc) ==
    IF loc \in DOMAIN s.block_data THEN <<s.block_data[loc]>> ELSE <<>>

(***************************************************************************)
(* Encoding (schematic.rs 166-250)                                         *)
(***************************************************************************)
\* the text of the cell at loc: "minecraft:air" when absent, else to_string
\* with the state's property map iterating in the order orders[loc]
cell_text(s, loc, orders) ==
    LET b == block_at(s, loc) IN
    IF b = <<>> THEN AirId ELSE fmt(b[1], orders[loc])

RECURSIVE encode_cells(_, _, _, _)
\* the three nested loops of encode_block_data from cell n on, n counting
\* the cells in y-outer, z-middle, x-inner order; acc holds block_data,
\* palette and the counter id
encode_cells(s, orders, n, acc) ==
    IF n >= height(s) * length(s) * width(s) THEN acc
    ELSE LET y0 == min_y(s) + (n \div (width(s) * length(s)))
             z0 == min_z(s) + ((n % (width(s) * length(s))) \div width(s))
             x0 == min_x(s) + (n % width(s))
             block == cell_text(s, <<x0, y0, z0>>, orders)
             seen == block \in DOMAIN acc.palette
             idx == IF seen THEN acc.palette[block] ELSE acc.id
             palette == IF seen THEN acc.palette
                        ELSE [t \in (DOMAIN acc.palette) \cup {block} |->
                                 IF t = block THEN acc.id ELSE acc.palette[t]]
         IN  encode_cells(s, orders, n + 1,
                 [block_data |-> acc.block_data \o write_varint(idx),
                  palette |-> palette,
                  id |-> IF seen THEN acc.id ELSE acc.id + 1])

\* encode_block_data with the counter id starting at 1
encode_block_data_from_one(s, orders) ==
    LET r == encode_cells(s, orders, 0,
                 [block_data |-> <<>>, palette |-> EmptyProps, id |-> 1])
    IN  [block_data |-> r.block_data, palette |-> r.palette]

\* Schematic::encode_block_data
encode_block_data(s, orders) ==
    LET r == encode_cells(s, orders, 0,
                 [block_data |-> <<>>, palette |-> EmptyProps, id |-> 0])
    IN  [block_data |-> r.block_data, palette |-> r.palette]

RECURSIVE OrdersOver(_, _)
\* the functions that give every position in D an iteration order of the
\* property map of its state
OrdersOver(s, D) ==
    IF D = {} THEN {EmptyProps}
    ELSE LET p == CHOOSE q \in D : TRUE IN
         {[q \in (DOMAIN f) \cup {p} |-> IF q = p THEN o ELSE f[q]] :
             f \in OrdersOver(s, D \ {p}), o \in Perms(DOMAIN s.block_data[p].props)}

\* the iteration orders the property maps of the occupied positions may have
IterOrders(s) == OrdersOver(s, DOMAIN s.block_data)

\* Schematic::to_writer: the SchemFormat record handed to the NBT writer.
\* palette.len() as i32 is the length itself below 2^31.
to_writer(s, orders) ==
    LET e == encode_block_data(s, orders) IN
    [width |-> as_i16(len_x(s)),
     length |-> as_i16(len_z(s)),
     height |-> as_i16(len_y(s)),
     block_data |-> e.block_data,
     palette_max |-> Cardinality(DOMAIN e.palette),
     palette |-> e.palette,
     offset |-> s.original_offset,
     block_entities |-> s.block_entities,
     data_version |-> s.original_data_version,
     metadata |-> s.original_metadata,
     version |-> 2]

(***************************************************************************)
(* Decoding (schematic.rs 266-373)                                         *)
(***************************************************************************)
\* Vec::resize(n, None) on a table that is not longer than n
resize(res, n) == res \o [k \in 1..(n - Len(res)) |-> <<>>]

RECURSIVE decode_palette_loop(_, _, _, _)
\* the loop of decode_palette over the palette entries in the given order;
\* a table slot is <<>> (None) or <<state>> (Some)
decode_palette_loop(palette, order, k, res) ==
    IF k > Len(order) THEN [kind |-> "ok", res |-> res]
    ELSE LET name == order[k]
             i == as_usize(palette[name])
             grown == IF i = Huge THEN res
                      ELSE IF i > Len(res) THEN resize(res, i) ELSE res
             state == from_str(name)
         IN  IF i = Huge
             THEN [kind |-> "panic", res |-> "capacity overflow"]
             ELSE IF ~ state.ok
             THEN [kind |-> "err", res |-> state.val]
             ELSE IF i >= Len(grown)
             THEN [kind |-> "panic", res |-> "index out of bounds"]
             ELSE decode_palette_loop(palette, order, k + 1,
                      [grown EXCEPT ![i + 1] = <<state.val>>])

\* Schematic::decode_palette, the palette map iterating in the given order
decode_palette(fm, order) ==
    decode_palette_loop(fm.palette, order, 1,
        resize(<<>>, Cardinality(DOMAIN fm.palette)))

\* palette.get(value).ok_or_else(invalid)?.clone().ok_or_else(missing)?
palette_get(palette, value) ==
    IF value = Huge \/ value >= Len(palette) THEN [kind |-> "err", res |-> "invalid palette index"]
    ELSE IF palette[value + 1] = <<>> THEN [kind |-> "err", res |-> "missing palette index"]
    ELSE [kind |-> "ok", res |-> palette[value + 1][1]]

RECURSIVE decode_cells(_, _, _, _, _)
\* the outer `while i < block_data.len()` of decode_block_data
decode_cells(fm, palette, i, index, buffer) ==
    IF i >= Len(fm.block_data) THEN [kind |-> "ok", res |-> buffer]
    ELSE LET v == read_varint(fm.block_data, i)
             area == fm.width * fm.length
         IN  IF v.kind # "ok" THEN [kind |-> v.kind, res |-> v.msg]
             ELSE IF area = 0 THEN [kind |-> "panic", res |-> "attempt to divide by zero"]
             ELSE LET y == rust_div(index, area)
                      z == rust_div(rust_rem(index, area), fm.width)
                      x == rust_rem(rust_rem(index, area), fm.width)
                      state == palette_get(palette, v.value)
                  IN  IF state.kind # "ok" THEN state
                      ELSE decode_cells(fm, palette, v.i, index + 1,
                               (<<x, y, z>> :> state.res) @@ buffer)

\* Schematic::decode_block_data
decode_block_data(fm, palette) == decode_cells(fm, palette, 0, 0, EmptyProps)

\* Schematic::from_reader on the SchemFormat record the NBT reader returned,
\* the palette map iterating in the given order
from_reader(fm, order) ==
    LET decoded_palette == decode_palette(fm, order) IN
    IF decoded_palette.kind # "ok" THEN decoded_palette
    ELSE LET decoded_block_data == decode_block_data(fm, decoded_palette.res) IN
         IF decoded_block_data.kind # "ok" THEN decoded_block_data
         ELSE [kind |-> "ok",
               res |-> [original_width |-> as_usize(fm.width),
                        original_length |-> as_usize(fm.length),
                        original_height |-> as_usize(fm.height),
                        original_offset |-> fm.offset,
                        original_data_version |-> fm.data_version,
                        original_metadata |-> fm.metadata,
                        block_data |-> decoded_block_data.res,
                        block_entities |-> fm.block_entities]]

(***************************************************************************)
(* ROM layout engine (rom.rs)                                              *)
(*                                                                         *)
(* The code fixes 8 rows of 16 lines of 16 bits (128 lines).  The model    *)
(* keeps the algorithm and takes the three sizes as parameters.            *)
(***************************************************************************)
\* rows of the ROM (rom.rs 36: 8), lines per row (rom.rs 51: 16) and
\* markers per line (rom.rs 75: 16)
NumRows == 2
LinesPerRow == 2
BitsPerLine == 2

\* rom.rs 35 and 73: 128
NumLines == NumRows * LinesPerRow

\* find_soul_torches: the positions whose block is the inert marker (the
\* Vec's order is the map's iteration order; its only reader sorts each line)
find_soul_torches(s) ==
    {loc \in DOMAIN s.block_data : s.block_data[loc].id = SoulTorchId}

RECURSIVE sort_by_x(_)
\* Vec::sort_by_key(|x| *x.x()) on the positions of one line, which differ in x
sort_by_x(S) ==
    IF S = {} THEN <<>>
    ELSE LET m == CHOOSE p \in S : \A q \in S : X(p) <= X(q)
         IN  <<m>> \o sort_by_x(S \ {m})

\* find_program_lines: line id <<y, z>> |-> its positions by ascending x
find_program_lines(s) ==
    LET torch_locations == find_soul_torches(s) IN
    [line_id \in {<<Y(i), Z(i)>> : i \in torch_locations} |->
        sort_by_x({i \in torch_locations : <<Y(i), Z(i)>> = line_id})]

\* the layout check without the assertion on each line's length
layout_ok_count_only(ls) == Cardinality(DOMAIN ls) = NumLines

\* the two assertions of program_rom (rom.rs 73-76)
layout_ok(ls) ==
    /\ Cardinality(DOMAIN ls) = NumLines
    /\ \A k \in DOMAIN ls : Len(ls[k]) = BitsPerLine

\* min_by_key(|(k, _)| k[0]) over a map iteration: the first minimal element
\* in iteration order, which may be any of the minimal ones
min_by_y(ids) == {k \in ids : \A j \in ids : k[1] <= j[1]}

\* .filter(|(k, _)| k[1] > last_z)
inner_candidates(ls, z) == {k \in DOMAIN ls : k[2] > z}

\* HashMap::remove that leaves the entry in the map
remove_nothing(m, k) == m

\* HashMap::remove
remove(m, k) == [j \in (DOMAIN m) \ {k} |-> m[j]]

\* bit idx of a program word: (value >> idx) & 1 == 1
bit_set(value, idx) == (value \div Pow2(idx)) % 2 = 1

\* set_bits with the bits of a line counted from its largest x
set_bits_reversed(ordered, prog) ==
    UNION {{ordered[k][BitsPerLine - idx] :
               idx \in {i \in 0..(BitsPerLine - 1) : bit_set(prog[k], i)}} :
           k \in {n \in 1..Len(ordered) : n <= Len(prog)}}

\* rom.rs 80-88: the positions to activate, from zipping the ordered lines
\* with the program (the zip ends with the shorter of the two)
set_bits(ordered, prog) ==
    UNION {{ordered[k][idx + 1] :
               idx \in {i \in 0..(BitsPerLine - 1) : bit_set(prog[k], i)}} :
           k \in {n \in 1..Len(ordered) : n <= Len(prog)}}

\* rom.rs 90-99 without the else branch: other blocks are kept
imprint_blocks_keep(s, bits) ==
    [pos \in DOMAIN s.block_data |->
        LET blk == s.block_data[pos] IN
        IF blk.id = SoulTorchId /\ pos \in bits
        THEN same_props_new_id(blk, RedstoneTorchId)
        ELSE blk]

\* rom.rs 90-99: the loop over blocks_mut()
imprint_blocks(s, bits) ==
    [pos \in DOMAIN s.block_data |->
        LET blk == s.block_data[pos] IN
        IF blk.id = SoulTorchId
        THEN IF pos \in bits THEN same_props_new_id(blk, RedstoneTorchId) ELSE blk
        ELSE air]

(***************************************************************************)
(* BlockState text round trip: fmt, then from_str                          *)
(***************************************************************************)
\* the most entries a property map under test holds
MaxProps == 2

\* identifiers, property names and property values under test: plain ones
\* and ones that hold a delimiter of the text form
IdSamples == {<<"a">>, <<>>, <<"a", "[">>, <<"a", "]">>}
KeySamples == {<<"k">>, <<"j">>, <<"k", "=">>, <<",">>, <<"]">>}
ValSamples == {<<"v">>, <<>>, <<"v", "]">>, <<",">>, <<"=">>}

\* the property maps with at most n entries
PropSamples(n) ==
    UNION {[K -> ValSamples] : K \in {S \in SUBSET KeySamples : Cardinality(S) <= n}}

\* the BlockStates with at most n properties
BlockStateSamples(n) == {with_props(name, p) : name \in IdSamples, p \in PropSamples(n)}

InitText ==
    /\ pc = "fmt"
    /\ bs \in BlockStateSamples(MaxProps)
    /\ text = None
    /\ parsed = None
    /\ schematic = None /\ program = None /\ lines = None /\ ordered_lines = None
    /\ row = None /\ col = None /\ last_z = None /\ input = None /\ first = None /\ run = None
    /\ format = None /\ decoded = None
    /\ cur_id = None /\ stream = None /\ vres = None
    /\ steps = None

\* s.to_string(): Display::fmt, the property map iterating in some order
Display ==
    /\ pc = "fmt"
    /\ \E order \in Perms(DOMAIN bs.props) : text' = fmt(bs, order)
    /\ pc' = "parse"
    /\ UNCHANGED <<bs, parsed, romVars, codecVars, varintVars, mainVars>>

\* text.parse::<BlockState>()
Parse ==
    /\ pc = "parse"
    /\ parsed' = from_str(text)
    /\ pc' = "parsed"
    /\ UNCHANGED <<bs, text, romVars, codecVars, varintVars, mainVars>>

NextText == Display \/ Parse

SpecText == InitText /\ [][NextText]_vars

Has(s, c) == Find(s, c, 1) # 0

EndsWith(s, c) == Len(s) > 0 /\ s[Len(s)] = c

\* a BlockState whose strings hold no delimiter where the text form reads one
DelimiterFree(b) ==
    /\ ~ Has(b.id, "[")
    /\ \A k \in DOMAIN b.props :
          /\ ~ Has(k, ",") /\ ~ Has(k, "=")
          /\ ~ Has(b.props[k], ",") /\ ~ EndsWith(b.props[k], "]")

MaxStreamLen == 6

\* palette indices under test: the i32 values around every power of two
VarintSamples ==
    {Pow2(k) + d : k \in 1..30, d \in {0 - 1, 0, 1}} \cup {0, 2147483647}

\* bytes (i8) under test: 0x00, 0x01, 0x7f, 0x80, 0xff
ByteSamples == {0, 1, 127, 0 - 128, 0 - 1}

\* cur_id of a run that reads a raw stream (a palette index is never negative)
NoId == 0 - 1

\* the byte streams of at most max bytes
StreamSamples(max) == UNION {[1..n -> ByteSamples] : n \in 0..max}

InitVarint ==
    /\ \/ /\ pc = "write"
          /\ cur_id \in VarintSamples
          /\ stream = <<>>
       \/ /\ pc = "read"
          /\ cur_id = NoId
          /\ stream \in StreamSamples(MaxStreamLen)
    /\ vres = None
    /\ steps = None
    /\ bs = None /\ text = None /\ parsed = None
    /\ schematic = None /\ program = None /\ lines = None /\ ordered_lines = None
    /\ row = None /\ col = None /\ last_z = None /\ input = None /\ first = None /\ run = None
    /\ format = None /\ decoded = None

\* schematic.rs 204-208 for one index
WriteVarint ==
    /\ pc = "write"
    /\ stream' = write_varint(cur_id)
    /\ pc' = "read"
    /\ UNCHANGED <<cur_id, vres, textVars, romVars, codecVars, mainVars>>

\* schematic.rs 337-351 at i = 0
ReadVarint ==
    /\ pc = "read"
    /\ vres' = read_varint(stream, 0)
    /\ pc' = "done"
    /\ UNCHANGED <<cur_id, stream, textVars, romVars, codecVars, mainVars>>

NextVarint == WriteVarint \/ ReadVarint

SpecVarint == InitVarint /\ [][NextVarint]_vars

\* the first n bytes of s all carry the continuation bit
AllContinue(s, n) == Len(s) >= n /\ \A k \in 1..n : as_u8(s[k]) >= 128

\* C7: the decoder reads back every index the encoder wrote and consumes
\* exactly the bytes written; a stream whose first varint runs into a 6th
\* byte is rejected with "varint length too big"
C7_VarintRoundTrip ==
    pc = "done" =>
        /\ cur_id # NoId =>
              /\ Len(stream) <= 5
              /\ vres.kind = "ok" /\ vres.value = cur_id /\ vres.i = Len(stream)
        /\ (Len(stream) >= 6 /\ AllContinue(stream, 5)) =>
              /\ vres.kind = "err"
              /\ vres.msg = "varint length too big (data probably corrupted)"

\* C7 witness: the largest index, written in 5 bytes, was read back
C7_Witness ==
    /\ pc = "done" /\ cur_id = 2147483647
    /\ Len(stream) = 5 /\ vres.kind = "ok" /\ vres.value = cur_id

\* C7 witness of the rejection: six continuation bytes were read
C7_WitnessOverflow ==
    /\ pc = "done" /\ cur_id = NoId
    /\ AllContinue(stream, 6) /\ vres.kind = "err"

(***************************************************************************)
(* Codec: to_writer, then from_reader                                      *)
(***************************************************************************)
\* the box the grids under test live in: x in -1..MaxX, y and z in 0..1,
\* and the most positions a grid occupies
MaxX == 1
MaxBlocks == 2

PosSamples == {<<x, y, z>> : x \in (0 - 1)..MaxX, y \in 0..1, z \in 0..1}

RECURSIVE SubsetsOfSize(_, _)
\* the subsets of S with n elements
SubsetsOfSize(S, n) ==
    IF n = 0 THEN {{}}
    ELSE UNION {{T \cup {x} : x \in S \ T} : T \in SubsetsOfSize(S, n - 1)}

\* block states under test: air, stone, and a marker with one property
StateSamples ==
    {air, new(StoneId), with_props(SoulTorchId, [k \in {<<"f">>} |-> <<"n">>])}

\* the grids with at most n occupied positions
GridSamples(n) ==
    UNION {[S -> StateSamples] : S \in UNION {SubsetsOfSize(PosSamples, k) : k \in 0..n}}

\* declared dimensions under test (original_width, _length, _height)
DeclaredSamples == {<<1, 1, 1>>, <<9, 8, 7>>}

\* a Schematic with the given blocks, declared dimensions and block entities
Schem(blocks, dims, entities) ==
    [original_width |-> dims[1],
     original_length |-> dims[2],
     original_height |-> dims[3],
     original_offset |-> <<0, 0, 0>>,
     original_data_version |-> 2586,
     original_metadata |-> <<0, 0, 0>>,
     block_data |-> blocks,
     block_entities |-> entities]

InitCodec ==
    /\ pc = "encode"
    /\ \E g \in GridSamples(MaxBlocks), d \in DeclaredSamples : schematic = Schem(g, d, EmptyProps)
    /\ format = None /\ decoded = None
    /\ bs = None /\ text = None /\ parsed = None
    /\ program = None /\ lines = None /\ ordered_lines = None
    /\ row = None /\ col = None /\ last_z = None /\ input = None /\ first = None /\ run = None
    /\ cur_id = None /\ stream = None /\ vres = None
    /\ steps = None

\* Schematic::to_writer (to_file, to_bytes)
Encode ==
    /\ pc = "encode"
    /\ \E orders \in IterOrders(schematic) : format' = to_writer(schematic, orders)
    /\ pc' = "decode"
    /\ UNCHANGED <<decoded, textVars, romVars, varintVars, mainVars>>

\* Schematic::from_reader (from_file, from_bytes)
Decode ==
    /\ pc = "decode"
    /\ \E order \in Perms(DOMAIN format.palette) : decoded' = from_reader(format, order)
    /\ pc' = "decoded"
    /\ UNCHANGED <<format, textVars, romVars, varintVars, mainVars>>

NextCodec == Encode \/ Decode

SpecCodec == InitCodec /\ [][NextCodec]_vars

Occupied == DOMAIN schematic.block_data

\* C3 as stated: after encode and decode of a grid with an occupied
\* position, every occupied position of the grid holds in the decoded grid
\* the BlockState the grid gave it
C3_RoundTrip ==
    (pc = "decoded" /\ Occupied # {}) =>
        /\ decoded.kind = "ok"
        /\ \A p \in Occupied :
              /\ p \in DOMAIN decoded.res.block_data
              /\ decoded.res.block_data[p] = schematic.block_data[p]

\* what the code does instead: the decoded grid is the input grid moved so
\* that the minimum corner of its bounding box is the origin
C3_RoundTripShifted ==
    (pc = "decoded" /\ Occupied # {}) =>
        /\ decoded.kind = "ok"
        /\ \A p \in Occupied :
              LET q == <<X(p) - min_x(schematic), Y(p) - min_y(schematic),
                         Z(p) - min_z(schematic)>>
              IN  /\ q \in DOMAIN decoded.res.block_data
                  /\ decoded.res.block_data[q] = schematic.block_data[p]

\* the text of the single-byte palette index t in the palette
TextOf(palette, t) == CHOOSE name \in DOMAIN palette : palette[name] = t

\* C10: the emitted Width, Height, Length are max - min + 1 of the occupied
\* positions per axis, BlockData holds one cell per position of that box,
\* and the cell at box offset (x, y, z) is the state at (min_x + x,
\* min_y + y, min_z + z), or air when that position is absent
C10_BoxFromOccupied ==
    (pc \in {"decode", "decoded"} /\ Occupied # {}) =>
        LET lox == SetMin({X(p) : p \in Occupied})
            loy == SetMin({Y(p) : p \in Occupied})
            loz == SetMin({Z(p) : p \in Occupied})
            w == SetMax({X(p) : p \in Occupied}) - lox + 1
            h == SetMax({Y(p) : p \in Occupied}) - loy + 1
            l == SetMax({Z(p) : p \in Occupied}) - loz + 1
        IN  /\ format.width = w /\ format.height = h /\ format.length = l
            /\ Len(format.block_data) = w * h * l
            /\ \A x \in 0..(w - 1), y \in 0..(h - 1), z \in 0..(l - 1) :
                  LET p == <<lox + x, loy + y, loz + z>>
                      t == format.block_data[(y * l + z) * w + x + 1]
                  IN  /\ t \in {format.palette[name] : name \in DOMAIN format.palette}
                      /\ IF p \in Occupied
                         THEN \E o \in Perms(DOMAIN schematic.block_data[p].props) :
                                 TextOf(format.palette, t) = fmt(schematic.block_data[p], o)
                         ELSE TextOf(format.palette, t) = AirId

\* C10 witness: a grid away from the origin, smaller than its declared
\* dimensions and with an absent position inside its box, was encoded
C10_Witness ==
    /\ pc = "decode"
    /\ min_x(schematic) # 0
    /\ format.width # as_i16(schematic.original_width)
    /\ Cardinality(Occupied) < format.width * format.height * format.length

(***************************************************************************)
(* Decoding a SchemFormat read from a file                                 *)
(***************************************************************************)
\* the largest palette index a file under test declares, and the longest
\* BlockData stream
MaxIndex == 2
MaxData == 2

\* palette names under test; the last one has a property without '='
NameSamples == {AirId, StoneId, <<"s", "[", "k", "]">>}

\* the palettes that declare indices from -1 to max
PaletteSamples(max) ==
    UNION {[N -> (0 - 1)..max] : N \in SUBSET NameSamples}

\* BlockData bytes under test: the indices 0, 1, 2 and 0x80
DataSamples(max) == UNION {[1..n -> {0, 1, 2, 0 - 128}] : n \in 0..max}

\* declared <<Width, Length>> under test
AreaSamples == {<<1, 1>>, <<2, 1>>, <<0, 1>>}

FormatSamples(maxIndex, maxData) ==
    {[width |-> a[1], length |-> a[2], height |-> 1,
      block_data |-> d, palette_max |-> Cardinality(DOMAIN p), palette |-> p,
      offset |-> <<0, 0, 0>>, block_entities |-> EmptyProps,
      data_version |-> 2586, metadata |-> <<0, 0, 0>>, version |-> 2] :
        a \in AreaSamples, d \in DataSamples(maxData), p \in PaletteSamples(maxIndex)}

InitDecode ==
    /\ pc = "decode"
    /\ format \in FormatSamples(MaxIndex, MaxData)
    /\ decoded = None /\ schematic = None
    /\ bs = None /\ text = None /\ parsed = None
    /\ program = None /\ lines = None /\ ordered_lines = None
    /\ row = None /\ col = None /\ last_z = None /\ input = None /\ first = None /\ run = None
    /\ cur_id = None /\ stream = None /\ vres = None
    /\ steps = None

SpecDecode == InitDecode /\ [][Decode]_vars

\* a declared palette index that is not an index of the lookup table
DeclaredOutside(fm) ==
    \E name \in DOMAIN fm.palette : fm.palette[name] >= Cardinality(DOMAIN fm.palette)

\* C8 as stated: a palette inconsistency ends decode with an error value: a
\* declared index outside the lookup table with "invalid palette index",
\* never with a crash
C8_PaletteErrorsAreValues ==
    (pc = "decoded" /\ DeclaredOutside(format)) =>
        /\ decoded.kind = "err"
        /\ decoded.res = "invalid palette index"

\* what the code does for a declared index outside the table: it panics
\* (index out of bounds) unless a name that does not parse is met first
C8_DeclaredOutsidePanics ==
    (pc = "decoded" /\ DeclaredOutside(format)) =>
        \/ decoded.kind = "panic"
        \/ decoded.kind = "err" /\ decoded.res = "no equal in palette prop"

\* the half of C8 the code keeps: a cell whose index is inside a table that
\* was built without a crash, in a slot no entry populated, ends decode with
\* "missing palette index"
C8_MissingEntryIsError ==
    (/\ pc = "decoded"
     /\ format.palette # EmptyProps
     /\ \A name \in DOMAIN format.palette :
           /\ format.palette[name] \in 0..(Cardinality(DOMAIN format.palette) - 1)
           /\ from_str(name).ok
     /\ format.width # 0
     /\ Len(format.block_data) > 0
     /\ format.block_data[1] \in 0..(Cardinality(DOMAIN format.palette) - 1)
     /\ format.block_data[1] \notin {format.palette[name] : name \in DOMAIN format.palette})
    => (decoded.kind = "err" /\ decoded.res = "missing palette index")

(***************************************************************************)
(* program_rom: layout check, order_lines, imprint; and a second run of    *)
(* program_rom on the result of the first                                  *)
(***************************************************************************)
\* an inert marker; its property differs with the parity of x
Marker(x) ==
    with_props(SoulTorchId, [k \in {<<"f">>} |-> IF x % 2 = 0 THEN <<"n">> ELSE <<"e">>])

\* a ROM with the given line ids: BitsPerLine markers at x = 0.. on each
Layout(keys) ==
    [pos \in {<<x, k[1], k[2]>> : x \in 0..(BitsPerLine - 1), k \in keys} |-> Marker(X(pos))]

\* every line higher than the one before it, z rising along a row
DiagKeys == {<<r * LinesPerRow + c, c>> : r \in 0..(NumRows - 1), c \in 0..(LinesPerRow - 1)}

\* row r at y = r, z = 0.. within the row
RowKeys == {<<r, c>> : r \in 0..(NumRows - 1), c \in 0..(LinesPerRow - 1)}

\* all lines at one z
ColumnKeys == {<<n, 0>> : n \in 0..(NumLines - 1)}

ShapeSamples == {DiagKeys, RowKeys, ColumnKeys}

\* a line id outside every shape
ExtraKey == <<NumLines, LinesPerRow>>

\* one change to a ROM: a position, and <<>> (absent) or <<state>>
EditSamples(keys) ==
    {<<pos, st>> :
        pos \in {<<x, k[1], k[2]>> : x \in 0..BitsPerLine, k \in keys \cup {ExtraKey}},
        st \in {<<>>, <<air>>, <<new(StoneId)>>, <<Marker(1)>>,
                <<same_props_new_id(Marker(0), RedstoneTorchId)>>}}

Edit(blocks, e) ==
    [pos \in (IF e[2] = <<>> THEN (DOMAIN blocks) \ {e[1]} ELSE (DOMAIN blocks) \cup {e[1]}) |->
        IF pos = e[1] THEN e[2][1] ELSE blocks[pos]]

GridsOf(keys) == {Layout(keys)} \cup {Edit(Layout(keys), e) : e \in EditSamples(keys)}

\* a block entity, carried along by every operation
EntitySamples == [p \in {<<0, 0, 0>>} |-> [id |-> <<"c">>, props |-> EmptyProps]]

\* programs under test: of length 0, 1, NumLines - 1, NumLines and
\* NumLines + 1; all words 0, all words with every bit set, or word k the
\* number k + s cut to BitsPerLine bits
ProgramSamples ==
    LET Words == Pow2(BitsPerLine)
        Lens == {0, 1, NumLines - 1, NumLines, NumLines + 1}
    IN  {[k \in 1..n |-> 0] : n \in Lens}
        \cup {[k \in 1..n |-> Words - 1] : n \in Lens}
        \cup {[k \in 1..n |-> (k + sh) % Words] : n \in Lens, sh \in 0..(Words - 1)}

InitRom ==
    /\ pc = "start"
    /\ \E keys \in ShapeSamples : \E g \in GridsOf(keys) :
          schematic = Schem(g, <<BitsPerLine, LinesPerRow, NumLines>>, EntitySamples)
    /\ input = schematic /\ first = schematic /\ run = 1
    /\ program = <<>>
    /\ lines = EmptyProps /\ ordered_lines = <<>>
    /\ row = 0 /\ col = 0 /\ last_z = 0
    /\ bs = None /\ text = None /\ parsed = None
    /\ format = None /\ decoded = None
    /\ cur_id = None /\ stream = None /\ vres = None
    /\ steps = None

\* rom.rs 71-76 and 35: find_program_lines, the two assertions, and the
\* empty slots of order_lines
CheckLayout ==
    /\ pc = "start"
    /\ lines' = find_program_lines(schematic)
    /\ IF layout_ok(lines')
       THEN /\ pc' = "row"
            /\ ordered_lines' = [k \in 1..NumLines |-> <<>>]
       ELSE /\ pc' = "malformed"
            /\ UNCHANGED ordered_lines
    /\ row' = 0 /\ col' = 0 /\ last_z' = 0
    /\ UNCHANGED <<schematic, program, input, first, run, textVars, codecVars, varintVars, mainVars>>

\* where order_lines stands after filling slot row * LinesPerRow + col
AfterSlot(r, c) ==
    IF c + 1 < LinesPerRow THEN <<"col", r, c + 1>>
    ELSE IF r + 1 < NumRows THEN <<"row", r + 1, 0>>
    ELSE <<"ordered", r + 1, 0>>

\* the line ids order_lines may take next: rom.rs 38-41 at the start of a
\* row, rom.rs 54-57 inside it
Candidates ==
    IF pc = "row" THEN DOMAIN lines ELSE inner_candidates(lines, last_z)

\* rom.rs 38-49 and 54-63: take a minimal-y candidate, place it, remove it
PlaceLine ==
    /\ pc \in {"row", "col"}
    /\ \E line_id \in min_by_y(Candidates) :
          /\ ordered_lines' = [ordered_lines EXCEPT ![row * LinesPerRow + col + 1] = lines[line_id]]
          /\ last_z' = line_id[2]
          /\ lines' = remove(lines, line_id)
    /\ pc' = AfterSlot(row, col)[1]
    /\ row' = AfterSlot(row, col)[2]
    /\ col' = AfterSlot(row, col)[3]
    /\ UNCHANGED <<schematic, program, input, first, run, textVars, codecVars, varintVars, mainVars>>

\* rom.rs 41 and 57: unwrap() on an empty candidate set panics
OrderPanic ==
    /\ pc \in {"row", "col"}
    /\ Candidates = {}
    /\ pc' = "panic"
    /\ UNCHANGED <<schematic, program, lines, ordered_lines, row, col, last_z,
                   input, first, run, textVars, codecVars, varintVars, mainVars>>

\* rom.rs 80-101, the program argument of the call being one of programs
ImprintWith(programs) ==
    /\ pc = "ordered"
    /\ \E p \in programs :
          /\ program' = p
          /\ schematic' = [schematic EXCEPT
                 !.block_data = imprint_blocks(schematic, set_bits(ordered_lines, p))]
    /\ pc' = "done"
    /\ UNCHANGED <<lines, ordered_lines, row, col, last_z, input, first, run,
                   textVars, codecVars, varintVars, mainVars>>

\* the first run may be called with any program (the code reads it here
\* for the first time), a re-run is called with the program of the first
Imprint == ImprintWith(IF run = 1 THEN ProgramSamples ELSE {program})

\* program_rom called again, on the result of the first run, with the same program
Rerun ==
    /\ pc = "done" /\ run = 1
    /\ first' = schematic /\ input' = schematic
    /\ run' = 2
    /\ pc' = "start"
    /\ UNCHANGED <<schematic, program, lines, ordered_lines, row, col, last_z,
                   textVars, codecVars, varintVars, mainVars>>

Next == CheckLayout \/ PlaceLine \/ OrderPanic \/ Imprint \/ Rerun

Spec == InitRom /\ [][Next]_vars

Range(f) == {f[k] : k \in DOMAIN f}

\* the inert markers of the grid the current run started from
InputMarkers == find_soul_torches(input)

\* the (y, z) groups of the inert markers, and the members of one
InputGroups == {<<Y(p), Z(p)>> : p \in InputMarkers}

GroupOf(g) == {p \in InputMarkers : <<Y(p), Z(p)>> = g}

\* the inert markers form NumLines groups of BitsPerLine members each
ValidLayout ==
    /\ Cardinality(InputGroups) = NumLines
    /\ \A g \in InputGroups : Cardinality(GroupOf(g)) = BitsPerLine

\* some bit of a word that the zip pairs with a line is set
AnyBitSet(prog) ==
    \E k \in 1..Len(prog) :
        k <= NumLines /\ \E b \in 0..(BitsPerLine - 1) : bit_set(prog[k], b)

\* C2 as stated: the second run of imprint, on the output of the first and
\* with the same program, passes the layout check and returns the grid the
\* first run returned
C2_Idempotent ==
    run = 2 =>
        /\ pc # "malformed"
        /\ pc = "done" => schematic = first

\* C2 amended: when no bit of the words paired with a line is set, a second
\* run passes the layout check and, if it returns, returns the grid of the
\* first run; when some bit is set, the second run fails the layout check
C2_IdempotentIffNoBitSet ==
    (run = 2 /\ pc # "start") =>
        IF AnyBitSet(program)
        THEN pc = "malformed" /\ schematic = first
        ELSE /\ pc # "malformed"
             /\ pc = "done" => schematic = first

\* C2 witness: a second run with a program of NumLines zero words returned
\* the grid of the first run
C2_Witness ==
    /\ run = 2 /\ pc = "done"
    /\ Len(program) = NumLines /\ ~ AnyBitSet(program)
    /\ schematic = first

\* C4: after imprint, the marker of ordered line k with b markers of smaller
\* x in its line is active exactly when k <= length(program) and bit b of
\* program[k] is set; every other marker is still inert; the ordered lines
\* hold every marker of the grid
C4_BitsImprinted ==
    pc = "done" =>
        /\ InputMarkers = UNION {Range(ordered_lines[k]) : k \in 1..NumLines}
        /\ \A k \in 1..NumLines : \A pos \in Range(ordered_lines[k]) :
              LET b == Cardinality({q \in GroupOf(<<Y(pos), Z(pos)>>) : X(q) < X(pos)})
              IN  schematic.block_data[pos].id =
                      (IF k <= Len(program) /\ bit_set(program[k], b)
                       THEN RedstoneTorchId ELSE SoulTorchId)

\* C4 witness: a program shorter than the ROM activated a marker at the
\* largest x of a line and left a marker of a line past its end inert
C4_Witness ==
    /\ pc = "done" /\ run = 1
    /\ Len(program) = NumLines - 1
    /\ \E pos \in InputMarkers :
          X(pos) = BitsPerLine - 1 /\ schematic.block_data[pos].id = RedstoneTorchId
    /\ \A pos \in Range(ordered_lines[NumLines]) :
          schematic.block_data[pos].id = SoulTorchId

\* C5: after imprint, every occupied position of the input grid whose
\* identifier is not the inert marker's holds air
C5_OthersCleared ==
    pc = "done" =>
        \A pos \in DOMAIN input.block_data :
            input.block_data[pos].id # SoulTorchId => schematic.block_data[pos] = air

\* C5 witness: a position that held an active marker was cleared by a
\* program that sets no bit
C5_Witness ==
    /\ pc = "done" /\ run = 1 /\ program = <<>>
    /\ \E pos \in DOMAIN input.block_data :
          /\ input.block_data[pos].id = RedstoneTorchId
          /\ schematic.block_data[pos] = air

\* C6: the layout check fails exactly when the inert markers do not form
\* NumLines groups of BitsPerLine members; a failed check ends the run with
\* the grid untouched and nothing returned
C6_LayoutCheck ==
    /\ pc \notin {"start"} => (pc = "malformed" <=> ~ ValidLayout)
    /\ pc = "malformed" => (schematic = input /\ ~ ENABLED Next)

\* C6 witness: a ROM with the right number of groups, one of them a marker
\* short, failed the check
C6_Witness ==
    /\ pc = "malformed" /\ run = 1
    /\ Cardinality(InputGroups) = NumLines
    /\ \E g \in InputGroups : Cardinality(GroupOf(g)) = BitsPerLine - 1

(***************************************************************************)
(* order_lines called on its own, on a map of NumLines lines               *)
(***************************************************************************)
\* the sets of n line ids with y in 0..NumRows - 1, z in 0..LinesPerRow
KeySetSamples(n) ==
    {K \in SUBSET {<<y, z>> : y \in 0..(NumRows - 1), z \in 0..LinesPerRow} :
        Cardinality(K) = n}

InitOrder ==
    /\ pc = "row"
    /\ \E keys \in KeySetSamples(NumLines) :
          schematic = Schem(Layout(keys), <<BitsPerLine, LinesPerRow, NumLines>>, EntitySamples)
    /\ input = schematic /\ first = schematic /\ run = 1
    /\ program = <<>>
    /\ lines = find_program_lines(schematic)
    /\ ordered_lines = [k \in 1..NumLines |-> <<>>]
    /\ row = 0 /\ col = 0 /\ last_z = 0
    /\ bs = None /\ text = None /\ parsed = None
    /\ format = None /\ decoded = None
    /\ cur_id = None /\ stream = None /\ vres = None
    /\ steps = None

NextOrder == PlaceLine \/ OrderPanic

SpecOrder == InitOrder /\ [][NextOrder]_vars

\* the line of the input with the given id
InputLine(y, z) == find_program_lines(input)[<<y, z>>]

\* C1 as stated: on rows at y = r with z = 0.. within each row, order_lines
\* never fails, and slot LinesPerRow * r + z of its result holds the line
\* with y = r and that z, whatever the iteration order of the map
C1_RowMajorAlways ==
    InputGroups = RowKeys =>
        /\ pc # "panic"
        /\ pc = "ordered" =>
              \A r \in 0..(NumRows - 1), z \in 0..(LinesPerRow - 1) :
                  ordered_lines[LinesPerRow * r + z + 1] = InputLine(r, z)

\* what the code does on that input: a run that returns has the row-major
\* order, and a run fails when the map yields a line of larger z first
C1_RowMajorUnlessPanic ==
    (InputGroups = RowKeys /\ pc = "ordered") =>
        \A r \in 0..(NumRows - 1), z \in 0..(LinesPerRow - 1) :
            ordered_lines[LinesPerRow * r + z + 1] = InputLine(r, z)


\* the line id <<y, z>> of a placed line (its positions share y and z)
LineId(bits) == <<Y(bits[1]), Z(bits[1])>>

\* C12: order_lines on NumLines groups ends either with a failure at a step
\* inside a row where no group still to be placed has z above the threshold,
\* or with NumLines slots that hold every input group exactly once, none
\* empty, z strictly increasing from slot to slot within each row
C12_PlacesEachGroupOnce ==
    /\ (~ ENABLED NextOrder) => pc \in {"ordered", "panic"}
    /\ pc = "panic" =>
          /\ col >= 1
          /\ \A k \in DOMAIN lines : k[2] <= last_z
    /\ pc = "ordered" =>
          /\ Len(ordered_lines) = NumLines
          /\ lines = EmptyProps
          /\ \A n \in 1..NumLines : ordered_lines[n] # <<>>
          /\ \A g \in InputGroups :
                Cardinality({n \in 1..NumLines : ordered_lines[n] = InputLine(g[1], g[2])}) = 1
          /\ \A r \in 0..(NumRows - 1), c \in 1..(LinesPerRow - 1) :
                LineId(ordered_lines[r * LinesPerRow + c])[2]
                    < LineId(ordered_lines[r * LinesPerRow + c + 1])[2]

\* C12 witness: an input that is not the row grid was ordered, and a line of
\* larger y stands before a line of smaller y
C12_Witness ==
    /\ pc = "ordered"
    /\ InputGroups # RowKeys
    /\ \E n \in 1..(NumLines - 1) :
          LineId(ordered_lines[n])[1] > LineId(ordered_lines[n + 1])[1]

\* C12 witness of the failure: a run stopped inside a row with groups left
C12_WitnessFailure ==
    /\ pc = "panic" /\ col >= 1 /\ lines # EmptyProps


(***************************************************************************)
(* What program_rom leaves alone                                           *)
(***************************************************************************)
\* the fields of a Schematic other than block_data
Frame(s) ==
    <<s.original_width, s.original_length, s.original_height, s.original_offset,
      s.original_data_version, s.original_metadata, s.block_entities>>

\* the effective bounding box of a Schematic
Box(s) == <<min_x(s), min_y(s), min_z(s), max_x(s), max_y(s), max_z(s)>>

\* C13: imprint keeps the set of occupied positions and so the bounding
\* box; every marker position keeps its properties and holds the inert or
\* the active identifier; block entities, declared dimensions, offset, data
\* version and metadata are unchanged.  A run that stops before the imprint
\* loop has changed nothing at all.
C13_ImprintFrame ==
    /\ pc = "done" =>
          /\ DOMAIN schematic.block_data = DOMAIN input.block_data
          /\ Box(schematic) = Box(input)
          /\ \A pos \in InputMarkers :
                /\ schematic.block_data[pos].props = input.block_data[pos].props
                /\ schematic.block_data[pos].id \in {SoulTorchId, RedstoneTorchId}
          /\ Frame(schematic) = Frame(input)
    /\ pc # "done" => schematic = input

\* C13 witness: an imprint activated a marker that has a property, cleared
\* a block that is not a marker, and carried a block entity along
C13_Witness ==
    /\ pc = "done" /\ run = 1
    /\ \E pos \in InputMarkers :
          /\ schematic.block_data[pos].id = RedstoneTorchId
          /\ DOMAIN schematic.block_data[pos].props # {}
    /\ \E pos \in DOMAIN input.block_data :
          /\ input.block_data[pos].id = StoneId
          /\ schematic.block_data[pos] = air
    /\ DOMAIN schematic.block_entities # {}


(***************************************************************************)
(* The palette built by encode_block_data                                  *)
(***************************************************************************)
\* the position of cell n of the bounding box of s, the cells counted from 0
\* with y outermost, then z, then x
CellPos(s, n) ==
    <<min_x(s) + (n % width(s)),
      min_y(s) + (n \div (width(s) * length(s))),
      min_z(s) + ((n % (width(s) * length(s))) \div width(s))>>

\* C14: with the texts of the cells of the bounding box taken in y-outer,
\* z-middle, x-inner order, the palette maps exactly the distinct texts, each
\* to the number of distinct texts first met before it, so onto 0..n-1 and
\* one-to-one, the first cell's text to 0; PaletteMax is n; BlockData holds
\* one index per cell, each the palette's index of that cell's text (every
\* index under test is below 128 and takes one byte).  T and FirstMet are
\* tables, merged with the empty function so that TLC builds each once.
C14_PaletteBijection ==
    pc \in {"decode", "decoded"} =>
        LET N == height(schematic) * length(schematic) * width(schematic) IN
        \E orders \in IterOrders(schematic) :
            LET T == [n \in 0..(N - 1) |-> cell_text(schematic, CellPos(schematic, n), orders)]
                         @@ EmptyProps
                Texts == {T[n] : n \in 0..(N - 1)}
                FirstMet == [t \in Texts |-> SetMin({n \in 0..(N - 1) : T[n] = t})]
                                @@ EmptyProps
                Rank(t) == Cardinality({u \in Texts : FirstMet[u] < FirstMet[t]})
            IN  /\ DOMAIN format.palette = Texts
                /\ \A t \in Texts : format.palette[t] = Rank(t)
                /\ {format.palette[t] : t \in Texts} = 0..(Cardinality(Texts) - 1)
                /\ \A t \in Texts, u \in Texts :
                      format.palette[t] = format.palette[u] => t = u
                /\ N > 0 => format.palette[T[0]] = 0
                /\ format.palette_max = Cardinality(Texts)
                /\ Len(format.block_data) = N
                /\ \A n \in 0..(N - 1) :
                      /\ format.block_data[n + 1] \in 0..(format.palette_max - 1)
                      /\ format.block_data[n + 1] = format.palette[T[n]]

\* C14 witness: a box whose first cell is not air and in which a text is
\* met twice was encoded with a palette of two or more entries
C14_Witness ==
    /\ pc = "decode"
    /\ Occupied # {}
    /\ block_at(schematic, CellPos(schematic, 0)) # <<>>
    /\ block_at(schematic, CellPos(schematic, 0))[1] # air
    /\ format.palette_max >= 2
    /\ Len(format.block_data) > format.palette_max


(***************************************************************************)
(* Reads of the BlockData stream by decode_block_data                      *)
(***************************************************************************)
\* the palette table of the file is built without a failure, whatever the
\* iteration order of the palette map, and Width * Length is not 0
PaletteDecodes(fm) ==
    /\ \A order \in Perms(DOMAIN fm.palette) : decode_palette(fm, order).kind = "ok"
    /\ fm.width * fm.length # 0

\* the last byte of the stream carries the continuation bit
Truncated(data) == Len(data) > 0 /\ as_u8(data[Len(data)]) >= 128

\* C15 as stated: decode never indexes BlockData at or past its end; a
\* stream whose last byte carries the continuation bit ends decode with an
\* error value
C15_NoReadPastEnd ==
    (pc = "decoded" /\ PaletteDecodes(format)) =>
        /\ decoded.kind \in {"ok", "err"}
        /\ Truncated(format.block_data) => decoded.kind = "err"

\* what the code does: a stream of continuation bytes only makes the inner
\* loop index BlockData at its length, which panics
C15_TruncatedPanics ==
    (/\ pc = "decoded"
     /\ PaletteDecodes(format)
     /\ Len(format.block_data) > 0
     /\ AllContinue(format.block_data, Len(format.block_data)))
    => (decoded.kind = "panic" /\ decoded.res = "index out of bounds")

\* the part of C15 the code keeps: a stream whose last byte ends a varint is
\* decoded without a failed read
C15_CompleteStreamNoPanic ==
    (pc = "decoded" /\ PaletteDecodes(format) /\ ~ Truncated(format.block_data))
    => decoded.kind \in {"ok", "err"}


(***************************************************************************)
(* main: fetch, decode, imprint, encode, publish (main.rs 18-48)           *)
(***************************************************************************)
\* Instruction::encode of shorthands::nop(): Move, Unconditional, no flags,
\* src and dst Rnull (8)
nop == BitOr(32768, BitOr(8 * 16, 8))

\* Instruction::encode of shorthands::jmp(address): Branch, Absolute,
\* Unconditional
jmp(address) == BitOr(40960, address)

\* main.rs 28-34: program! { nop; nop; nop; nop; jmp 0; }
MainProgram == <<nop, nop, nop, nop, jmp(0)>>

\* ROMs under test: the given shapes, and the row grid with a marker missing,
\* with a marker replaced by stone, and with a stone block beside a line
MainGrids(shapes) ==
    {Layout(keys) : keys \in shapes}
        \cup {Edit(Layout(RowKeys), e) :
                  e \in {<<<<0, 0, 0>>, <<>>>>,
                         <<<<0, 0, 0>>, <<new(StoneId)>>>>,
                         <<<<BitsPerLine, 0, 0>>, <<new(StoneId)>>>>}}

\* the files the remote host may hold: ROMs as to_writer writes them
RomFiles(shapes) ==
    UNION {{to_writer(Schem(g, <<BitsPerLine, LinesPerRow, NumLines>>, EntitySamples), orders) :
               orders \in IterOrders(Schem(g, <<BitsPerLine, LinesPerRow, NumLines>>, EntitySamples))} :
           g \in MainGrids(shapes)}

\* and files of one cell with a palette or a BlockData stream that may be
\* inconsistent
OtherFiles ==
    {f \in FormatSamples(0, 1) : f.width = 1 /\ Len(f.block_data) = 1}

\* after that runs a failed step again
after_retry(step, outcome) ==
    IF outcome = "ok"
    THEN (IF step = "fetch" THEN "from_file"
          ELSE IF step = "decode" THEN "program_rom"
          ELSE IF step = "encode" THEN "upload"
          ELSE "finished")
    ELSE (IF step = "fetch" THEN "fetch"
          ELSE IF step = "decode" THEN "from_file"
          ELSE IF step = "encode" THEN "done"
          ELSE "upload")

\* the statement main runs after a step: `?` returns from main on Err, a
\* panic unwinds out of main
after(step, outcome) ==
    IF outcome = "err" THEN "failed"
    ELSE IF outcome = "panic" THEN "panic"
    ELSE IF step = "fetch" THEN "from_file"
    ELSE IF step = "decode" THEN "program_rom"
    ELSE IF step = "encode" THEN "upload"
    ELSE "finished"

InitMain ==
    /\ pc = "fetch"
    /\ steps = <<>>
    /\ format = None /\ decoded = None
    /\ schematic = None /\ input = None /\ first = None /\ run = 1
    /\ program = <<>>
    /\ lines = EmptyProps /\ ordered_lines = <<>>
    /\ row = 0 /\ col = 0 /\ last_z = 0
    /\ bs = None /\ text = None /\ parsed = None
    /\ cur_id = None /\ stream = None /\ vres = None

\* main.rs 24: download_schematic(..)?; scp fails, or input.schem holds the
\* remote file
Fetch ==
    /\ pc = "fetch"
    /\ steps' = Append(steps, "fetch")
    /\ \/ /\ format' \in RomFiles({RowKeys, ColumnKeys}) \cup OtherFiles
          /\ pc' = after("fetch", "ok")
       \/ /\ format' = format
          /\ pc' = after("fetch", "err")
    /\ UNCHANGED <<decoded, textVars, romVars, varintVars>>

\* main.rs 25: Schematic::from_file("input.schem")?
DecodeFile ==
    /\ pc = "from_file"
    /\ steps' = Append(steps, "decode")
    /\ \E order \in Perms(DOMAIN format.palette) :
          /\ decoded' = from_reader(format, order)
          /\ pc' = after("decode", decoded'.kind)
          /\ schematic' = IF decoded'.kind = "ok" THEN decoded'.res ELSE schematic
    /\ UNCHANGED <<format, program, lines, ordered_lines, row, col, last_z,
                   input, first, run, textVars, varintVars>>

\* main.rs 37-40: the call of rom::program_rom with the decoded Schematic
CallImprint ==
    /\ pc = "program_rom"
    /\ steps' = Append(steps, "imprint")
    /\ input' = schematic /\ first' = schematic
    /\ program' = MainProgram
    /\ pc' = "start"
    /\ UNCHANGED <<schematic, lines, ordered_lines, row, col, last_z,
                   run, textVars, codecVars, varintVars>>

\* main.rs 43: programmed_rom.to_file("generated.schem")?; creating or
\* writing the file fails, or generated.schem holds the encoded Schematic
EncodeFile ==
    /\ pc = "done"
    /\ steps' = Append(steps, "encode")
    /\ \/ /\ \E orders \in IterOrders(schematic) : format' = to_writer(schematic, orders)
          /\ pc' = after("encode", "ok")
       \/ /\ format' = format
          /\ pc' = after("encode", "err")
    /\ UNCHANGED <<decoded, textVars, romVars, varintVars>>

\* main.rs 44: upload_schematic(..)?
Publish ==
    /\ pc = "upload"
    /\ steps' = Append(steps, "publish")
    /\ \/ pc' = after("publish", "ok")
       \/ pc' = after("publish", "err")
    /\ UNCHANGED <<textVars, romVars, codecVars, varintVars>>

\* rom.rs 80-101 with the program main passed
ImprintMain == ImprintWith({program})

\* the steps of program_rom run between CallImprint and EncodeFile
NextMain ==
    \/ Fetch \/ DecodeFile \/ CallImprint
    \/ CheckLayout \/ PlaceLine \/ OrderPanic \/ ImprintMain
    \/ EncodeFile \/ Publish

SpecMain == InitMain /\ [][NextMain]_vars

PipelineSteps == <<"fetch", "decode", "imprint", "encode", "publish">>

IsPrefix(s, t) == Len(s) <= Len(t) /\ \A k \in 1..Len(s) : s[k] = t[k]

\* the number of steps started when main stands at pc
StepsAt ==
    IF pc = "fetch" THEN {0}
    ELSE IF pc = "from_file" THEN {1}
    ELSE IF pc = "program_rom" THEN {2}
    ELSE IF pc \in {"start", "row", "col", "ordered", "done", "malformed"} THEN {3}
    ELSE IF pc = "upload" THEN {4}
    ELSE IF pc = "finished" THEN {5}
    ELSE IF pc = "panic" THEN {2, 3}
    ELSE {1, 2, 4, 5}

\* a step ended with an error, a failed assertion or a panic
Aborted == pc \in {"failed", "malformed", "panic"}

\* C11: the steps started so far are an initial part of fetch, decode,
\* imprint, encode, publish (so each at most once, in this order, fetch
\* first, publish last); main stands where that many steps say; after a
\* step failed, and after publish, no further step is taken; a run reaches
\* publish only with a decoded, imprinted and encoded Schematic
C11_PipelineOrder ==
    /\ IsPrefix(steps, PipelineSteps)
    /\ Len(steps) \in StepsAt
    /\ Aborted => ~ ENABLED NextMain
    /\ pc = "finished" => ~ ENABLED NextMain
    /\ Len(steps) >= 3 => decoded.kind = "ok"
    /\ Len(steps) = 5 =>
          /\ \A pos \in DOMAIN schematic.block_data :
                schematic.block_data[pos].id \in {SoulTorchId, RedstoneTorchId, AirId}
          /\ \E orders \in IterOrders(schematic) : format = to_writer(schematic, orders)

\* C11 witness: a run went through all five steps
C11_Witness ==
    /\ pc = "finished"
    /\ steps = PipelineSteps

\* C11 witness of an abort: the layout assertion failed and the run stopped
\* after three steps
C11_WitnessAbort ==
    /\ pc = "malformed"
    /\ steps = <<"fetch", "decode", "imprint">>

=============================================================================
